---- MODULE Spec2Model ----
(***************************************************************************)
(* Model of publish.py: the release build script.  main() is one           *)
(* sequential pass: load the manifest, recreate the output directory,      *)
(* load every submission, compile + rename + render each loaded one,       *)
(* write index.html and copy the assets directory.                         *)
(*                                                                         *)
(* The file system is modelled explicitly: a directory is a set of files   *)
(* with pairwise distinct names, a file name is <<stem, extension>>, and   *)
(* a file's data records how it was produced (which source was compiled,   *)
(* which context a template was rendered with).                            *)
(*                                                                         *)
(* The external compiler (latexmk) is deterministic: whether it succeeds   *)
(* on a source file is a property of that file (submissions[id].ok).  On   *)
(* success it leaves <base>.pdf in the output directory; on failure it     *)
(* exits nonzero and leaves the directory as it was.                       *)
(***************************************************************************)
EXTENDS Integers, Sequences, FiniteSets, TLC

\* ---------------------------------------------------------------- bounds
MaxItems == 2          \* longest manifest (config['content_ids'])
MaxRuns == 2           \* runs of main() in a row (SpecTwice)
Ids == {1, 2}          \* content identifiers that have a directory
Names == {"a", "b"}    \* permalinks and source base names
NoFile == "none"       \* "no file with that extension in the directory"
AssetFiles == {"style.css"}

\* ------------------------------------------------------------- variables
VARIABLES
  config,           \* the manifest, as loaded (line 41)
  submissions,      \* SUBMISSIONS_DIR: id -> directory content
  assets,           \* ASSETS_DIR: <<>> if absent, else <<set of files>>
  output,           \* OUTPUT_DIR: [exists, files, assets]
  release_content,  \* the content list of main()
  pc,               \* position of main()
  i,                \* index of the loading loop (line 51)
  k,                \* index of the build loop (line 78)
  log,              \* history: the file-system and subprocess calls of this run
  run,              \* number of the current run of main()
  prev              \* <<output tree at the end of the previous run>>, or <<>>

vars == <<config, submissions, assets, output, release_content, pc, i, k, log, run, prev>>

\* ------------------------------------------------------------ file names
PdfName(stem) == <<stem, "pdf">>
HtmlName(stem) == <<stem, "html">>
IndexName == <<"index", "html">>
NoName == <<"", "">>

\* ------------------------------------------------------------- file data
StaleData == [kind |-> "stale", src |-> <<>>, list |-> <<>>, item |-> <<>>]

\* what latexmk -pdf leaves for a source file: a PDF of that source
PdfOf(tex_path) == [kind |-> "pdf", src |-> <<tex_path>>, list |-> <<>>, item |-> <<>>]

\* paper.html.j2 rendered with release, content_list and item
RenderPaper(release, content_list, item) ==
  [kind |-> "paper", src |-> <<release>>, list |-> content_list, item |-> <<item>>]

\* release.html.j2 rendered with release and content_list
RenderRelease(release, content_list) ==
  [kind |-> "release", src |-> <<release>>, list |-> content_list, item |-> <<>>]

\* ------------------------------------------------- directory operations
HasFile(files, name) == \E f \in files : f.name = name

DataOf(files, name) == (CHOOSE f \in files : f.name = name).data

\* open(path, 'w') + write, or a subprocess creating the file: replaces
WriteFile(files, name, data) ==
  {f \in files : f.name # name} \cup {[name |-> name, data |-> data]}

\* shutil.move(src, dst) for two paths in the same directory: os.rename,
\* which replaces dst, and is a no-op when src and dst are the same path
MoveFile(files, src, dst) ==
  IF src = dst THEN files
  ELSE {f \in files : f.name # src /\ f.name # dst}
         \cup {[name |-> dst, data |-> DataOf(files, src)]}

\* ------------------------------------------------------------ the inputs
SubDirs ==
  {d \in [yml : Names \cup {NoFile}, tex : Names \cup {NoFile}, ok : BOOLEAN] :
     (d.yml = NoFile \/ d.tex = NoFile) => d.ok}

RECURSIVE SeqsUpTo(_, _)
SeqsUpTo(S, n) ==
  IF n = 0 THEN {<<>>}
  ELSE LET shorter == SeqsUpTo(S, n - 1)
       IN shorter \cup {Append(s, x) : s \in {t \in shorter : Len(t) = n - 1}, x \in S}

Manifests == {[content_ids |-> s] : s \in SeqsUpTo(Ids, MaxItems)}

StaleFiles ==
  {[name |-> PdfName("a"), data |-> StaleData],
   [name |-> HtmlName("old"), data |-> StaleData]}

\* what an earlier run, or anything else, may have left at OUTPUT_DIR
PriorOutputs ==
  {[exists |-> FALSE, files |-> {}, assets |-> <<>>]}
    \cup {[exists |-> TRUE, files |-> fs, assets |-> a] :
            fs \in SUBSET StaleFiles, a \in {<<>>, <<{"old.css"}>>}}

AssetDirs == {<<>>} \cup {<<fs>> : fs \in SUBSET AssetFiles}

Event(op, n, name) == [op |-> op, k |-> n, name |-> name]

Init ==
  /\ config \in Manifests
  /\ submissions \in [Ids -> SubDirs]
  /\ assets \in AssetDirs
  /\ output \in PriorOutputs
  /\ release_content = <<>>
  /\ pc = "setup"
  /\ i = 1
  /\ k = 1
  /\ log = <<>>
  /\ run = 1
  /\ prev = <<>>

\* ------------------------------------------------------------- main()
\* faulty variant: os.makedirs(OUTPUT_DIR, exist_ok=True) without the rmtree
Setup_KeepExisting ==
  /\ pc = "setup"
  /\ output' = [output EXCEPT !.exists = TRUE]
  /\ log' = Append(log, Event("makedirs", 0, NoName))
  /\ pc' = "load"
  /\ i' = 1
  /\ UNCHANGED <<config, submissions, assets, release_content, k, run, prev>>

\* faulty variant: the makedirs sits in an else branch of the existence test
Setup_NoRecreate ==
  /\ pc = "setup"
  /\ output' = [exists |-> ~output.exists, files |-> {}, assets |-> <<>>]
  /\ log' = Append(log, Event(IF output.exists THEN "rmtree" ELSE "makedirs", 0, NoName))
  /\ pc' = "load"
  /\ i' = 1
  /\ UNCHANGED <<config, submissions, assets, release_content, k, run, prev>>

\* 2. Setup Output Directory
Setup ==
  /\ pc = "setup"
  /\ output' = [exists |-> TRUE, files |-> {}, assets |-> <<>>]
  /\ log' = log \o (IF output.exists THEN <<Event("rmtree", 0, NoName)>> ELSE <<>>)
                \o <<Event("makedirs", 0, NoName)>>
  /\ pc' = "load"
  /\ i' = 1
  /\ UNCHANGED <<config, submissions, assets, release_content, k, run, prev>>

\* the record appended for a complete submission directory
ContentData(item_id, dir) ==
  [metadata |-> [permalink |-> dir.yml, id |-> item_id, pdf_link |-> PdfName(dir.yml)],
   tex_path |-> <<item_id, dir.tex>>]

\* faulty variant: "break" instead of "continue" on an incomplete directory
LoadItem_BreakOnMissing ==
  /\ pc = "load"
  /\ i <= Len(config.content_ids)
  /\ LET item_id == config.content_ids[i]
         dir == submissions[item_id]
     IN IF dir.yml = NoFile \/ dir.tex = NoFile
        THEN /\ log' = Append(log, Event("skip", i, NoName))
             /\ i' = Len(config.content_ids) + 1
             /\ UNCHANGED release_content
        ELSE /\ release_content' = Append(release_content, ContentData(item_id, dir))
             /\ log' = Append(log, Event("load", i, NoName))
             /\ i' = i + 1
  /\ UNCHANGED <<config, submissions, assets, output, pc, k, run, prev>>

\* faulty variant: release_content.insert(0, content_data) instead of append
LoadItem_Prepend ==
  /\ pc = "load"
  /\ i <= Len(config.content_ids)
  /\ LET item_id == config.content_ids[i]
         dir == submissions[item_id]
     IN IF dir.yml = NoFile \/ dir.tex = NoFile
        THEN /\ log' = Append(log, Event("skip", i, NoName))
             /\ UNCHANGED release_content
        ELSE /\ release_content' = <<ContentData(item_id, dir)>> \o release_content
             /\ log' = Append(log, Event("load", i, NoName))
  /\ i' = i + 1
  /\ UNCHANGED <<config, submissions, assets, output, pc, k, run, prev>>

\* 3. one iteration of "for item_id in config['content_ids']"
LoadItem ==
  /\ pc = "load"
  /\ i <= Len(config.content_ids)
  /\ LET item_id == config.content_ids[i]
         dir == submissions[item_id]
     IN IF dir.yml = NoFile \/ dir.tex = NoFile
        THEN /\ log' = Append(log, Event("skip", i, NoName))
             /\ UNCHANGED release_content
        ELSE /\ release_content' = Append(release_content, ContentData(item_id, dir))
             /\ log' = Append(log, Event("load", i, NoName))
  /\ i' = i + 1
  /\ UNCHANGED <<config, submissions, assets, output, pc, k, run, prev>>

\* the loading loop is exhausted: go on to "4. Build Individual PDFs"
LoadDone ==
  /\ pc = "load"
  /\ i > Len(config.content_ids)
  /\ pc' = "build"
  /\ k' = 1
  /\ UNCHANGED <<config, submissions, assets, output, release_content, i, log, run, prev>>

\* faulty variant: the except clause does not re-raise, the loop goes on
Compile_ContinueOnError ==
  /\ pc = "build"
  /\ k <= Len(release_content)
  /\ LET item == release_content[k]
         base_name == item.tex_path[2]
     IN /\ log' = Append(log, Event("latexmk", k, PdfName(base_name)))
        /\ IF output.exists /\ submissions[item.tex_path[1]].ok
           THEN /\ output' = [output EXCEPT
                                !.files = WriteFile(@, PdfName(base_name), PdfOf(item.tex_path))]
                /\ pc' = "move"
           ELSE /\ pc' = "move"
                /\ UNCHANGED output
  /\ UNCHANGED <<config, submissions, assets, release_content, i, k, run, prev>>

\* run_pdflatex(item['tex_path'], OUTPUT_DIR): one subprocess.run of latexmk
Compile ==
  /\ pc = "build"
  /\ k <= Len(release_content)
  /\ LET item == release_content[k]
         base_name == item.tex_path[2]
     IN /\ log' = Append(log, Event("latexmk", k, PdfName(base_name)))
        /\ IF output.exists /\ submissions[item.tex_path[1]].ok
           THEN /\ output' = [output EXCEPT
                                !.files = WriteFile(@, PdfName(base_name), PdfOf(item.tex_path))]
                /\ pc' = "move"
           ELSE /\ pc' = "failed"
                /\ UNCHANGED output
  /\ UNCHANGED <<config, submissions, assets, release_content, i, k, run, prev>>

\* shutil.move(<base_name>.pdf, <permalink>.pdf)
Rename ==
  /\ pc = "move"
  /\ LET item == release_content[k]
         src == PdfName(item.tex_path[2])
         dst == PdfName(item.metadata.permalink)
     IN IF HasFile(output.files, src)
        THEN /\ output' = [output EXCEPT !.files = MoveFile(@, src, dst)]
             /\ log' = Append(log, Event("move", k, dst))
             /\ pc' = "render"
        ELSE /\ pc' = "failed"
             /\ UNCHANGED <<output, log>>
  /\ UNCHANGED <<config, submissions, assets, release_content, i, k, run, prev>>

\* faulty variant: the template gets the items built so far, not the whole list
RenderItem_ListSoFar ==
  /\ pc = "render"
  /\ LET item == release_content[k]
         name == HtmlName(item.metadata.permalink)
     IN IF output.exists
        THEN /\ output' = [output EXCEPT
                  !.files = WriteFile(@, name,
                              RenderPaper(config, SubSeq(release_content, 1, k), item))]
             /\ log' = Append(log, Event("html", k, name))
             /\ pc' = "build"
             /\ k' = k + 1
        ELSE /\ pc' = "failed"
             /\ UNCHANGED <<output, log, k>>
  /\ UNCHANGED <<config, submissions, assets, release_content, i, run, prev>>

\* render paper.html.j2 and write <permalink>.html; next iteration
RenderItem ==
  /\ pc = "render"
  /\ LET item == release_content[k]
         name == HtmlName(item.metadata.permalink)
     IN IF output.exists
        THEN /\ output' = [output EXCEPT
                  !.files = WriteFile(@, name, RenderPaper(config, release_content, item))]
             /\ log' = Append(log, Event("html", k, name))
             /\ pc' = "build"
             /\ k' = k + 1
        ELSE /\ pc' = "failed"
             /\ UNCHANGED <<output, log, k>>
  /\ UNCHANGED <<config, submissions, assets, release_content, i, run, prev>>

\* 6. Build Website: render release.html.j2 and write index.html
BuildWebsite ==
  /\ pc = "build"
  /\ k > Len(release_content)
  /\ IF output.exists
     THEN /\ output' = [output EXCEPT
               !.files = WriteFile(@, IndexName, RenderRelease(config, release_content))]
          /\ log' = Append(log, Event("index", 0, IndexName))
          /\ pc' = "assets"
     ELSE /\ pc' = "failed"
          /\ UNCHANGED <<output, log>>
  /\ UNCHANGED <<config, submissions, assets, release_content, i, k, run, prev>>

\* faulty variant: copytree without the os.path.exists(ASSETS_DIR) test
CopyAssets_Unconditional ==
  /\ pc = "assets"
  /\ IF assets # <<>> /\ output.exists /\ output.assets = <<>>
     THEN /\ output' = [output EXCEPT !.assets = assets]
          /\ log' = Append(log, Event("copytree", 0, NoName))
          /\ pc' = "done"
     ELSE /\ pc' = "failed"
          /\ UNCHANGED <<output, log>>
  /\ UNCHANGED <<config, submissions, assets, release_content, i, k, run, prev>>

\* Copy assets: shutil.copytree raises when the destination exists
CopyAssets ==
  /\ pc = "assets"
  /\ IF assets # <<>>
     THEN IF output.exists /\ output.assets = <<>>
          THEN /\ output' = [output EXCEPT !.assets = assets]
               /\ log' = Append(log, Event("copytree", 0, NoName))
               /\ pc' = "done"
          ELSE /\ pc' = "failed"
               /\ UNCHANGED <<output, log>>
     ELSE /\ pc' = "done"
          /\ UNCHANGED <<output, log>>
  /\ UNCHANGED <<config, submissions, assets, release_content, i, k, run, prev>>

\* the operator runs the pipeline again on the same inputs
Restart ==
  /\ pc \in {"done", "failed"}
  /\ run < MaxRuns
  /\ prev' = <<output>>
  /\ run' = run + 1
  /\ release_content' = <<>>
  /\ pc' = "setup"
  /\ i' = 1
  /\ k' = 1
  /\ log' = <<>>
  /\ UNCHANGED <<config, submissions, assets, output>>

Next ==
  \/ Setup
  \/ LoadItem
  \/ LoadDone
  \/ Compile
  \/ Rename
  \/ RenderItem
  \/ BuildWebsite
  \/ CopyAssets

Spec == Init /\ [][Next]_vars

NextTwice == Next \/ Restart

SpecTwice == Init /\ [][NextTwice]_vars

\* ------------------------------------------------- helpers of the claims
ContentIds == config.content_ids

\* the submission directory has both a .yml and a .tex file
Complete(id) == submissions[id].yml # NoFile /\ submissions[id].tex # NoFile

CompleteOnly(ids) == SelectSeq(ids, Complete)

IdsOf(content_list) == [n \in 1..Len(content_list) |-> content_list[n].metadata.id]

IsPrefix(s, t) == Len(s) <= Len(t) /\ SubSeq(t, 1, Len(s)) = s

Events(op) == {n \in 1..Len(log) : log[n].op = op}

EventsOf(op, n) == {e \in Events(op) : log[e].k = n}

CompilerOk(n) == submissions[release_content[n].tex_path[1]].ok

Pdfs == {f \in output.files : f.name[2] = "pdf"}

ItemPages == {f \in output.files : f.name[2] = "html" /\ f.name # IndexName}

Terminal == pc \in {"done", "failed"}

\* ---------------------------------------------------------------- claims

\* C1: when all N identifiers of the manifest have both files and every
\* compiler call succeeds, the finished run leaves exactly N PDF files,
\* exactly N per-item HTML files and index.html, whatever the permalinks and
\* source names are (the identifiers are taken pairwise distinct here).
C1_ExactlyNArtifacts ==
  (/\ pc = "done"
   /\ \A n \in 1..Len(ContentIds) : Complete(ContentIds[n])
   /\ \A m, n \in 1..Len(ContentIds) : m # n => ContentIds[m] # ContentIds[n])
  => /\ Cardinality(Pdfs) = Len(ContentIds)
     /\ Cardinality(ItemPages) = Len(ContentIds)
     /\ HasFile(output.files, IndexName)

\* C2: a nonzero compiler exit for the k-th loaded submission ends the run
\* in the failed state: nothing is renamed or rendered for that submission,
\* no later submission is compiled, index.html is not written, nothing runs
\* afterwards, and every file present is a PDF or page of submissions 1..k-1.
C2_AbortOnCompilerFailure ==
  /\ \A e \in Events("move") \cup Events("html") : CompilerOk(log[e].k)
  /\ \A n \in 1..Len(release_content) :
       ~CompilerOk(n) =>
         /\ pc # "done"
         /\ Events("index") = {}
         /\ \A m \in (n + 1)..Len(release_content) : EventsOf("latexmk", m) = {}
         /\ EventsOf("latexmk", n) # {} => pc = "failed"
  /\ pc = "failed" =>
       /\ k \in 1..Len(release_content)
       /\ ~CompilerOk(k)
       /\ log[Len(log)] = Event("latexmk", k, PdfName(release_content[k].tex_path[2]))
       /\ EventsOf("html", k) = {}
       /\ ~HasFile(output.files, IndexName)
       /\ output.assets = <<>>
       /\ ~ENABLED Next
       /\ \A f \in output.files :
            \E m \in 1..(k - 1) :
              LET item == release_content[m]
              IN \/ f = [name |-> PdfName(item.metadata.permalink),
                         data |-> PdfOf(item.tex_path)]
                 \/ f = [name |-> HtmlName(item.metadata.permalink),
                         data |-> RenderPaper(config, release_content, item)]

C2_Witness ==
  /\ pc = "failed"
  /\ k = 2
  /\ Cardinality(output.files) = 2

\* C3: a submission whose directory lacks the .yml or the .tex file is
\* skipped: it never enters the content list, no PDF or page is produced for
\* it, the index template does not get it, it never makes the run fail, and
\* at the end every other submission has been loaded, compiled and rendered.
C3_SkipIncomplete ==
  /\ \A n \in 1..Len(release_content) : Complete(release_content[n].metadata.id)
  /\ pc # "setup" =>
       \A f \in output.files :
         /\ \A n \in 1..Len(f.data.src) :
              f.data.kind = "pdf" => Complete(f.data.src[n][1])
         /\ \A n \in 1..Len(f.data.item) : Complete(f.data.item[n].metadata.id)
         /\ \A n \in 1..Len(f.data.list) : Complete(f.data.list[n].metadata.id)
  /\ \A n \in Events("skip") : ~Complete(ContentIds[log[n].k])
  /\ pc = "failed" => \E n \in 1..Len(release_content) : ~CompilerOk(n)
  /\ ~Terminal => ENABLED Next
  /\ pc = "done" =>
       /\ IdsOf(release_content) = CompleteOnly(ContentIds)
       /\ \A n \in 1..Len(release_content) :
            /\ EventsOf("latexmk", n) # {}
            /\ EventsOf("move", n) # {}
            /\ EventsOf("html", n) # {}
       /\ HasFile(output.files, IndexName)

C3_Witness ==
  /\ pc = "done"
  /\ Len(ContentIds) = 2
  /\ ~Complete(ContentIds[1])
  /\ Len(release_content) = 1
  /\ Cardinality(output.files) = 3

\* C4: once the setup step has run, the output directory exists and every
\* file in it (and its assets subtree) was written by the current run: no
\* file of an earlier run, complete or aborted, and no other prior content
\* survives the setup step.
C4_NoStaleArtifacts ==
  pc # "setup" =>
    /\ output.exists
    /\ log[1].op \in {"rmtree", "makedirs"}
    /\ \A f \in output.files :
         /\ f.data # StaleData
         /\ \E n \in 2..Len(log) :
              log[n].op \in {"latexmk", "move", "html", "index"} /\ log[n].name = f.name
    /\ output.assets # <<>> => Events("copytree") # {}

C4_Witness ==
  /\ run = 2
  /\ pc = "load"
  /\ prev # <<>>
  /\ prev[1].files # {}
  /\ prev[1].assets # <<>>
  /\ output.files = {}

\* C5: for each loaded submission the compiler command has been issued
\* exactly twice when its PDF is about to be renamed.
C5_CompilerInvokedTwice ==
  pc = "move" => Cardinality(EventsOf("latexmk", k)) = 2

\* C6: a second run in a row on the same inputs ends with the same output
\* tree (same file names, same contents, same assets subtree) as the run
\* before it, whatever that run and the state before it left behind.
C6_RerunSameTree ==
  (Terminal /\ prev # <<>>) => output = prev[1]

C6_Witness ==
  /\ run = 2
  /\ pc = "done"
  /\ Cardinality(output.files) >= 3
  /\ output.assets # <<>>

\* C7: the asset copy is conditional: a finished run has an assets subtree
\* exactly when the assets directory exists, holding exactly its files; the
\* subtree appears only after index.html is written; and the run never
\* fails in the copy step.
C7_AssetsConditionalCopy ==
  /\ pc = "done" => output.assets = assets
  /\ (pc # "setup" /\ output.assets # <<>>) =>
       /\ pc = "done"
       /\ \E n \in Events("index") : \A c \in Events("copytree") : n < c
       /\ HasFile(output.files, IndexName)
  /\ pc = "assets" => HasFile(output.files, IndexName)
  /\ pc = "failed" => log[Len(log)].op = "latexmk"

C7_Witness ==
  /\ pc = "done"
  /\ assets = <<AssetFiles>>
  /\ output.assets = <<AssetFiles>>

\* C8: throughout the run the content list holds, in manifest order, exactly
\* the identifiers read so far whose directories are complete, once per
\* occurrence, and a step only ever appends to it.
C8_ManifestOrder ==
  /\ [](IdsOf(release_content) = CompleteOnly(SubSeq(ContentIds, 1, i - 1)))
  /\ [][IsPrefix(release_content, release_content')]_vars

C8_Witness ==
  /\ pc = "done"
  /\ IdsOf(release_content) = <<2, 1>>

\* C9: every per-item page was rendered with the complete content list: all
\* loaded submissions of the manifest, each carrying its identifier and
\* pdf_link = <permalink>.pdf, and the index page is rendered with that
\* same list.
C9_PagesGetFullList ==
  pc # "setup" =>
    \A f \in output.files :
      f.data.kind \in {"paper", "release"} =>
        /\ f.data.list = release_content
        /\ IdsOf(f.data.list) = CompleteOnly(ContentIds)
        /\ \A n \in 1..Len(f.data.list) :
             LET item == f.data.list[n]
             IN /\ item.metadata.id = item.tex_path[1]
                /\ item.metadata.permalink = submissions[item.metadata.id].yml
                /\ item.metadata.pdf_link = PdfName(item.metadata.permalink)
        /\ \A g \in output.files :
             g.data.kind \in {"paper", "release"} => g.data.list = f.data.list

C9_Witness ==
  /\ pc = "build"
  /\ k = 2
  /\ Len(release_content) = 2
  /\ EventsOf("latexmk", 2) = {}
  /\ \E f \in output.files : f.data.kind = "paper" /\ Len(f.data.list) = 2

\* C10: when two loaded submissions have source files with the same base
\* name and distinct permalinks, the finished run has both <permalink>.pdf
\* files, each compiled from its own submission's source.
C10_SameBaseBothPdfs ==
  pc = "done" =>
    \A m, n \in 1..Len(release_content) :
      (/\ m < n
       /\ release_content[m].tex_path[2] = release_content[n].tex_path[2]
       /\ release_content[m].metadata.permalink # release_content[n].metadata.permalink)
      => \A x \in {m, n} :
           [name |-> PdfName(release_content[x].metadata.permalink),
            data |-> PdfOf(release_content[x].tex_path)] \in output.files

====
